---- MODULE Spec2Model ----
(***************************************************************************)
(* A model of interm's Block (src/src/block.rs): a fixed set of terminal   *)
(* lines that are rewritten in place with relative ANSI cursor movements.  *)
(* The model keeps, side by side, the row the Block believes the cursor is *)
(* on (cursor_position.row) and the row the terminal's cursor really is    *)
(* on, as the emitted bytes move it.  Rows are counted from the top of the *)
(* block: row 0 is the line the cursor was on when Block::new was called.  *)
(***************************************************************************)
EXTENDS Integers, Sequences, FiniteSets, TLC

VARIABLES
    phase,              \* "init" | "live" | "dead": lifecycle of the Block
    input_len,          \* length of the vector handed to Block::new
    interactive_lines,  \* Block.interactive_lines: seq of [content, relative_row]
    row,                \* Block.cursor_position.row (u8): the tracked row
    term_row,           \* the terminal's real cursor row, from the block top
    cursor_visible,     \* the terminal's cursor visibility
    emitted,            \* bytes that reached stdout during the last operation
    erased,             \* terminal rows erased by the last operation
    written,            \* <<row, text>> pairs the last operation displayed
    lastOp,             \* the last operation: name, arguments, result
    prev_goto,          \* idx of the successful goto_idx just before it, or -1
    first_failure,      \* where a write first failed: "none", "update_element", "other"
    faults_left,        \* how many more operations stdout may fail in
    texts,              \* the texts callers pass to update_element in this run
    strangers,          \* whether callers pass Lines that are not the Block's
    drop_shows,         \* show_cursor calls made by Drop so far
    sched               \* the program that shares the Block among tasks, if any

vars == <<phase, input_len, interactive_lines, row, term_row, cursor_visible,
          emitted, erased, written, lastOp, prev_goto, first_failure, faults_left, texts,
          strangers, drop_shows, sched>>

\* The Block, its terminal and its callers' choices: all but the program.
block_vars == <<phase, input_len, interactive_lines, row, term_row, cursor_visible,
                emitted, erased, written, lastOp, prev_goto, first_failure,
                faults_left, texts, strangers, drop_shows>>

(***************************************************************************)
(* Bounds of the model and constants of the program.                       *)
(***************************************************************************)
MaxLines == 3
RowsAbove == 2
RowsBelow == 1
MaxLinesIO == 2
MaxFaults == 1
Edge == 1
MaxTasks == 2
MaxUpdates == 1
MaxBlockLines == 255
U8 == 256

Texts == {<<1>>, <<2>>}
TextsIO == {<<1>>}

Max(a, b) == IF a >= b THEN a ELSE b
Min(a, b) == IF a <= b THEN a ELSE b

(***************************************************************************)
(* Bytes.  An escape sequence is one token; text is one token carrying its *)
(* characters; NL(n) is a run of n newline bytes.                          *)
(***************************************************************************)
Tok(k, n, s) == [k |-> k, n |-> n, s |-> s]
CR == Tok("CR", 0, <<>>)
NL(n) == Tok("NL", n, <<>>)
CSI_F(n) == Tok("CSI_F", n, <<>>)
CSI_E(n) == Tok("CSI_E", n, <<>>)
CSI_2K == Tok("CSI_2K", 0, <<>>)
CSI_HIDE == Tok("CSI_?25l", 0, <<>>)
CSI_SHOW == Tok("CSI_?25h", 0, <<>>)
TXT(s) == Tok("TXT", 0, s)

\* InteractiveLine::new: the given content, relative_row defaulted to 0.
InteractiveLine_new(content) == [content |-> content, relative_row |-> 0]

\* The names the caller gives its lines ("Download {idx}").
generate_names(n) == [i \in 1..n |-> <<0, i - 1>>]

\* InteractiveLine::update_relative_row
update_relative_row(line, r) == [line EXCEPT !.relative_row = r]

\* u8::abs_diff
abs_diff(a, b) == IF a >= b THEN a - b ELSE b - a

(***************************************************************************)
(* The terminal.  S is the Block together with the terminal it writes to   *)
(* and the fate of the writes of the operation in progress:                *)
(*   S.n        writes attempted so far in this operation                  *)
(*   S.fail_at  the write that fails (0: none), S.again: so do later ones  *)
(*   S.reached  whether the bytes of a failed write got to the terminal    *)
(***************************************************************************)
ScreenTop == 0 - RowsAbove
ScreenBottom(S) == Len(S.lines) + RowsBelow

\* A missing or zero parameter of CSI n F / CSI n E counts as 1.
Param(n) == IF n = 0 THEN 1 ELSE n

TermApply(S, tok) ==
    CASE tok.k = "NL"       -> [S EXCEPT !.trow = Min(ScreenBottom(S), S.trow + tok.n)]
      [] tok.k = "CSI_F"    -> [S EXCEPT !.trow = Max(ScreenTop, S.trow - Param(tok.n))]
      [] tok.k = "CSI_E"    -> [S EXCEPT !.trow = Min(ScreenBottom(S), S.trow + Param(tok.n))]
      [] tok.k = "CSI_2K"   -> [S EXCEPT !.erased = @ \cup {S.trow},
                                         !.written = {w \in @ : w[1] # S.trow}]
      [] tok.k = "TXT"      -> [S EXCEPT !.written =
                                   {w \in @ : w[1] # S.trow} \cup {<<S.trow, tok.s>>}]
      [] tok.k = "CSI_?25l" -> [S EXCEPT !.vis = FALSE]
      [] tok.k = "CSI_?25h" -> [S EXCEPT !.vis = TRUE]
      [] OTHER              -> S

RECURSIVE TermApplyAll(_, _)
TermApplyAll(S, toks) ==
    IF toks = <<>> THEN S
    ELSE TermApplyAll(TermApply(S, Head(toks)), Tail(toks))

Fails(S) ==
    /\ S.fail_at > 0
    /\ \/ S.n + 1 = S.fail_at
       \/ S.again /\ S.n + 1 > S.fail_at

\* The write that failed in the call that ended in S: its number, or 0.
Failed(S) == IF S.fail_at > 0 /\ S.fail_at <= S.n THEN S.fail_at ELSE 0

Deliver(S, bytes) == [TermApplyAll(S, bytes) EXCEPT !.out = @ \o bytes]

\* Block::write_inline: "\r{str}\r", write_all, flush.
write_inline(S, str) ==
    LET prepared_str == <<CR>> \o str \o <<CR>>
        T == [S EXCEPT !.n = @ + 1]
    IN  IF Fails(S)
        THEN [(IF S.reached THEN Deliver(T, prepared_str) ELSE T)
                 EXCEPT !.res = "io_error"]
        ELSE Deliver(T, prepared_str)

\* The `?` operator goes on only when the call before returned Ok.
Ok(S) == S.res = "ok"

(***************************************************************************)
(* Block's methods, as functions of S.                                     *)
(***************************************************************************)
\* Vec::get(idx): the element's position when idx is in range, else 0 (None).
Get(lines, idx) == IF idx < Len(lines) THEN idx + 1 ELSE 0

\* Block::move_up
move_up(S, n) == write_inline(S, <<CSI_F(n)>>)

\* Block::move_down
move_down(S, n) == write_inline(S, <<CSI_E(n)>>)

\* Block::go_to
go_to(S, el) ==
    LET relative_row == el.relative_row
    IN  IF S.row > relative_row
        THEN move_up(S, abs_diff(S.row, relative_row))
        ELSE IF S.row < relative_row
        THEN move_down(S, abs_diff(relative_row, S.row))
        ELSE S

\* goto_idx as it would be if it moved and forgot to commit the row.
goto_idx_uncommitted(S, idx) ==
    IF Get(S.lines, idx) # 0
    THEN go_to(S, S.lines[Get(S.lines, idx)])
    ELSE [S EXCEPT !.res = "not_found"]

\* goto_idx as it would be if it committed the row before it moved.
goto_idx_commit_first(S, idx) ==
    IF Get(S.lines, idx) # 0
    THEN LET el == S.lines[Get(S.lines, idx)]
         IN  [go_to(S, el) EXCEPT !.row = el.relative_row]
    ELSE [S EXCEPT !.res = "not_found"]

\* goto_idx as it would be if an index past the end meant the last line.
goto_idx_clamped(S, idx) ==
    LET el == S.lines[Get(S.lines, Min(idx, Len(S.lines) - 1))]
        T == go_to(S, el)
    IN  IF Ok(T) THEN [T EXCEPT !.row = el.relative_row] ELSE T

\* Block::goto_idx
goto_idx(S, idx) ==
    IF Get(S.lines, idx) # 0
    THEN LET el == S.lines[Get(S.lines, idx)]
             T == go_to(S, el)
         IN  IF Ok(T) THEN [T EXCEPT !.row = el.relative_row] ELSE T
    ELSE [S EXCEPT !.res = "not_found"]

\* Block::goto_element
goto_element(S, el) ==
    LET relative_row == el.relative_row
    IN  IF Get(S.lines, relative_row) # 0
        THEN LET own == S.lines[Get(S.lines, relative_row)]
                 T == go_to(S, own)
             IN  IF Ok(T)
                 THEN write_inline([T EXCEPT !.row = relative_row], <<CR>>)
                 ELSE T
        ELSE [S EXCEPT !.res = "not_found"]

\* Block::clear_line
clear_line(S) == write_inline(S, <<CSI_2K, CR>>)

\* update_element as it would be if it never erased the line.
update_element_unerased(S, elem, content, clear) ==
    LET relative_row == elem.relative_row
    IN  IF Get(S.lines, relative_row) # 0
        THEN LET S1 == [S EXCEPT !.lines[Get(S.lines, relative_row)].content = content]
                 S2 == goto_element(S1, elem)
             IN  IF Ok(S2) THEN write_inline(S2, <<TXT(content)>>) ELSE S2
        ELSE [S EXCEPT !.res = "not_found"]

\* update_element as it would be if it stored the content after its writes.
update_element_stores_last(S, elem, content, clear) ==
    LET relative_row == elem.relative_row
    IN  IF Get(S.lines, relative_row) # 0
        THEN LET S2 == goto_element(S, elem)
                 S3 == IF Ok(S2) /\ clear THEN clear_line(S2) ELSE S2
                 S4 == IF Ok(S3) THEN write_inline(S3, <<TXT(content)>>) ELSE S3
             IN  IF Ok(S4)
                 THEN [S4 EXCEPT !.lines[Get(S.lines, relative_row)].content = content]
                 ELSE S4
        ELSE [S EXCEPT !.res = "not_found"]

\* Block::update_element
update_element(S, elem, content, clear) ==
    LET relative_row == elem.relative_row
    IN  IF Get(S.lines, relative_row) # 0
        THEN LET S1 == [S EXCEPT !.lines[Get(S.lines, relative_row)].content = content]
                 S2 == goto_element(S1, elem)
                 S3 == IF Ok(S2) /\ clear THEN clear_line(S2) ELSE S2
             IN  IF Ok(S3) THEN write_inline(S3, <<TXT(content)>>) ELSE S3
        ELSE [S EXCEPT !.res = "not_found"]

\* One turn of the loop of Block::clear_lines.
clear_lines_body(S) ==
    LET T == clear_line(S)
    IN  IF Ok(T) THEN move_up(T, 1) ELSE T

\* The loop of Block::clear_lines: `for _ in 0..last_line`, k turns that
\* stop at the first failure.  The turns are taken as two runs of half
\* the length each, which keeps the evaluation shallow for 254 turns.
RECURSIVE clear_lines_loop(_, _)
clear_lines_loop(S, k) ==
    IF k = 0 \/ ~Ok(S) THEN S
    ELSE IF k = 1 THEN clear_lines_body(S)
    ELSE clear_lines_loop(clear_lines_loop(S, k \div 2), k - (k \div 2))

\* Block::clear_lines
clear_lines(S) ==
    LET last_line == Len(S.lines) - 1
        T == goto_idx(S, last_line)
    IN  IF Ok(T) THEN clear_lines_loop(T, last_line) ELSE T

\* Block::hide_cursor
hide_cursor(S) == write_inline(S, <<CSI_HIDE>>)

\* show_cursor as it would be if it wrote only when the cursor is hidden.
show_cursor_if_hidden(S) == IF S.vis THEN S ELSE write_inline(S, <<CSI_SHOW>>)

\* Block::show_cursor
show_cursor(S) == write_inline(S, <<CSI_SHOW>>)

\* Block::prepare_all
prepare_all(S) == write_inline(S, <<NL(Len(S.lines))>>)

\* Drop as it would be if it left the cursor as it is.
drop_without_show(S) == [S EXCEPT !.res = "ok"]

\* impl Drop for Block: show_cursor().unwrap()
drop(S) ==
    LET T == [show_cursor([S EXCEPT !.res = "ok"]) EXCEPT !.shows = @ + 1]
    IN  IF Ok(T) THEN T
        ELSE [T EXCEPT !.res = IF S.unwinding THEN "abort" ELSE "panic_unwrap"]

\* The lines as they would be if Block::new left their rows as given.
lines_vec_unnumbered(given) == given

\* The lines as they would be if Block::new numbered them from 1.
lines_vec_from_one(given) ==
    [i \in 1..Len(given) |-> update_relative_row(given[i], i % U8)]

\* The rows Block::new gives the lines: `line.update_relative_row(idx as u8)`.
lines_vec(given) ==
    [i \in 1..Len(given) |-> update_relative_row(given[i], (i - 1) % U8)]

\* Block::new as it would be if it refused 255 lines too.
Block_new_below_255(S, given) ==
    IF ~(Len(given) < MaxBlockLines) THEN [S EXCEPT !.res = "panic_too_many"]
    ELSE IF Len(given) = 0 THEN [S EXCEPT !.res = "panic_empty"]
    ELSE LET cur == [S EXCEPT !.row = Len(given) % U8, !.lines = lines_vec(given)]
             T == prepare_all(cur)
         IN  IF Ok(T) THEN T
             ELSE LET D == drop(T)
                  IN  IF Ok(D) THEN [D EXCEPT !.res = "io_error"] ELSE D

\* Block::new as it would be if it took any number of lines.
Block_new_unchecked(S, given) ==
    IF Len(given) = 0 THEN [S EXCEPT !.res = "panic_empty"]
    ELSE LET cur == [S EXCEPT !.row = Len(given) % U8, !.lines = lines_vec(given)]
             T == prepare_all(cur)
         IN  IF Ok(T) THEN T
             ELSE LET D == drop(T)
                  IN  IF Ok(D) THEN [D EXCEPT !.res = "io_error"] ELSE D

\* Block::new
Block_new(S, given) ==
    IF ~(Len(given) <= MaxBlockLines) THEN [S EXCEPT !.res = "panic_too_many"]
    ELSE IF Len(given) = 0 THEN [S EXCEPT !.res = "panic_empty"]
    ELSE LET cur == [S EXCEPT !.row = Len(given) % U8, !.lines = lines_vec(given)]
             T == prepare_all(cur)
         IN  IF Ok(T) THEN T
             ELSE LET D == drop(T)
                  IN  IF Ok(D) THEN [D EXCEPT !.res = "io_error"] ELSE D

(***************************************************************************)
(* The state machine: one action per public operation of Block.            *)
(***************************************************************************)
\* `self` and the terminal before a call; the call's writes fail as chosen.
Cur(fail_at, reached, again, unwinding) ==
    [lines |-> interactive_lines, row |-> row, trow |-> term_row,
     vis |-> cursor_visible, out |-> <<>>, erased |-> {}, written |-> {},
     n |-> 0, fail_at |-> fail_at, reached |-> reached, again |-> again,
     unwinding |-> unwinding, shows |-> drop_shows, res |-> "ok"]

\* The call with no failing write.
Sure == Cur(0, FALSE, FALSE, FALSE)

\* The writes that may fail in a call that makes n writes when none fails.
FailPoints(n) == IF faults_left > 0 THEN 0..n ELSE {0}
Reached(fail_at) == IF fail_at = 0 THEN {FALSE} ELSE BOOLEAN

Returned(res) == res \in {"ok", "not_found", "io_error"}
Panicked(res) == res \in {"panic_too_many", "panic_empty", "panic_unwrap", "abort"}
IoFailure(res) == res \in {"io_error", "panic_unwrap", "abort"}

Op(name, idx, text, clear) ==
    [name |-> name, idx |-> idx, text |-> text, clear |-> clear,
     foreign |-> FALSE, from |-> row, n |-> 0, failed |-> 0, res |-> "ok"]

\* The state after a call that ended in S (the call is evaluated once).
Commit(call, op, next_phase) ==
    \E S \in {call} :
        /\ phase' = next_phase
        /\ interactive_lines' = S.lines
        /\ row' = S.row
        /\ term_row' = S.trow
        /\ cursor_visible' = S.vis
        /\ emitted' = S.out
        /\ erased' = S.erased
        /\ written' = S.written
        /\ lastOp' = [op EXCEPT !.res = S.res, !.n = S.n, !.failed = Failed(S)]
        /\ prev_goto' = IF lastOp.name = "goto_idx" /\ lastOp.res = "ok"
                        THEN lastOp.idx ELSE 0 - 1
        /\ first_failure' = IF first_failure = "none" /\ IoFailure(S.res)
                            THEN (IF op.name = "update_element" THEN op.name ELSE "other")
                            ELSE first_failure
        /\ drop_shows' = S.shows
        /\ faults_left' = IF IoFailure(S.res) THEN faults_left - 1 ELSE faults_left
        /\ UNCHANGED <<input_len, texts, strangers>>

\* The indexes a caller may pass: those of the lines, and the first past
\* them.  Of a Block of more than MaxLines + 1 lines, the callers of the
\* model pass the indexes within Edge of either end.
Indexes ==
    LET len == Len(interactive_lines)
    IN  {i \in 0..len : len <= MaxLines + 1 \/ i < Edge \/ i + Edge >= len}

\* The lines a caller may pass by reference.  Its own: clones of the Block's
\* lines.  Foreign: a fresh Line (row 0), or a Line of another Block, which
\* carries the row that Block gave it.
OwnElems == {interactive_lines[i + 1] : i \in Indexes \ {Len(interactive_lines)}}
ForeignElems == {update_relative_row(InteractiveLine_new(<<>>), r) : r \in Indexes}
Elems ==
    [line : OwnElems, foreign : {FALSE}]
        \cup [line : IF strangers THEN ForeignElems ELSE {}, foreign : {TRUE}]

NewCall ==
    /\ phase = "init"
    /\ LET names == generate_names(input_len)
           given == [i \in 1..input_len |-> InteractiveLine_new(names[i])]
       IN  \E fail_at \in FailPoints(1) : \E reached \in Reached(fail_at) :
           \E again \in Reached(fail_at) :
             LET S == Block_new(Cur(fail_at, reached, again, FALSE), given)
             IN  Commit(S, Op("new", input_len, <<>>, FALSE),
                        IF S.res = "ok" THEN "live" ELSE "dead")

New == NewCall /\ UNCHANGED sched

UpdateElement ==
    /\ phase = "live"
    /\ \E e \in Elems : \E content \in texts : \E clear \in BOOLEAN :
       \E fail_at \in FailPoints(update_element(Sure, e.line, content, clear).n) :
       \E reached \in Reached(fail_at) :
          Commit(update_element(Cur(fail_at, reached, FALSE, FALSE), e.line, content, clear),
                 [Op("update_element", e.line.relative_row, content, clear)
                     EXCEPT !.foreign = e.foreign], "live")
    /\ UNCHANGED sched

GotoIdx ==
    /\ phase = "live"
    /\ \E idx \in Indexes :
       \E fail_at \in FailPoints(goto_idx(Sure, idx).n) :
       \E reached \in Reached(fail_at) :
          Commit(goto_idx(Cur(fail_at, reached, FALSE, FALSE), idx),
                 Op("goto_idx", idx, <<>>, FALSE), "live")
    /\ UNCHANGED sched

GotoElement ==
    /\ phase = "live"
    /\ \E e \in Elems :
       \E fail_at \in FailPoints(goto_element(Sure, e.line).n) :
       \E reached \in Reached(fail_at) :
          Commit(goto_element(Cur(fail_at, reached, FALSE, FALSE), e.line),
                 [Op("goto_element", e.line.relative_row, <<>>, FALSE)
                     EXCEPT !.foreign = e.foreign], "live")
    /\ UNCHANGED sched

ClearLine ==
    /\ phase = "live"
    /\ \E fail_at \in FailPoints(1) : \E reached \in Reached(fail_at) :
          Commit(clear_line(Cur(fail_at, reached, FALSE, FALSE)),
                 Op("clear_line", 0, <<>>, FALSE), "live")
    /\ UNCHANGED sched

ClearLinesCall ==
    /\ phase = "live"
    /\ \E fail_at \in FailPoints(clear_lines(Sure).n) :
       \E reached \in Reached(fail_at) :
          Commit(clear_lines(Cur(fail_at, reached, FALSE, FALSE)),
                 Op("clear_lines", 0, <<>>, FALSE), "live")

ClearLines == ClearLinesCall /\ UNCHANGED sched

HideCursorCall ==
    /\ phase = "live"
    /\ \E fail_at \in FailPoints(1) : \E reached \in Reached(fail_at) :
          Commit(hide_cursor(Cur(fail_at, reached, FALSE, FALSE)),
                 Op("hide_cursor", 0, <<>>, FALSE), "live")

HideCursor == HideCursorCall /\ UNCHANGED sched

ShowCursorCall ==
    /\ phase = "live"
    /\ \E fail_at \in FailPoints(1) : \E reached \in Reached(fail_at) :
          Commit(show_cursor(Cur(fail_at, reached, FALSE, FALSE)),
                 Op("show_cursor", 0, <<>>, FALSE), "live")

ShowCursor == ShowCursorCall /\ UNCHANGED sched

\* The Block goes out of scope, in a normal return or while a panic unwinds.
DropCall ==
    /\ phase = "live"
    /\ \E fail_at \in FailPoints(1) : \E reached \in Reached(fail_at) :
       \E unwinding \in Reached(fail_at) :
          Commit(drop(Cur(fail_at, reached, FALSE, unwinding)),
                 Op("drop", 0, <<>>, FALSE), "dead")

Drop == DropCall /\ UNCHANGED sched

NoOp == [name |-> "none", idx |-> 0, text |-> <<>>, clear |-> FALSE,
         foreign |-> FALSE, from |-> 0, n |-> 0, failed |-> 0, res |-> "ok"]

\* No program: the callers of the Block are anyone's.
NoProgram ==
    [main |-> "none", locking |-> FALSE, lock |-> 0, pc |-> <<>>, left |-> <<>>,
     seen |-> <<>>, joined |-> 0, overlap |-> FALSE]

InitBlock(lens, faults, contents, foreign) ==
    /\ phase = "init"
    /\ input_len \in lens
    /\ interactive_lines = <<>>
    /\ row = 0
    /\ term_row = 0
    /\ cursor_visible = TRUE
    /\ emitted = <<>>
    /\ erased = {}
    /\ written = {}
    /\ lastOp = NoOp
    /\ prev_goto = 0 - 1
    /\ first_failure = "none"
    /\ faults_left = faults
    /\ texts = contents
    /\ strangers = foreign
    /\ drop_shows = 0

InitWith(lens, faults, contents, foreign) ==
    /\ InitBlock(lens, faults, contents, foreign)
    /\ sched = NoProgram

\* Blocks of up to MaxLines lines on a terminal whose writes succeed.
Init == InitWith(0..MaxLines, 0, Texts, FALSE)

Next ==
    \/ New
    \/ UpdateElement
    \/ GotoIdx
    \/ GotoElement
    \/ ClearLine
    \/ ClearLines
    \/ HideCursor
    \/ ShowCursor
    \/ Drop

Spec == Init /\ [][Next]_vars

\* Blocks of up to MaxLinesIO lines on a terminal where up to MaxFaults
\* operations meet a failing write.
InitIO == InitWith(0..MaxLinesIO, MaxFaults, TextsIO, FALSE)

SpecIO == InitIO /\ [][Next]_vars

\* Blocks whose callers also pass Lines of other Blocks and fresh Lines.
InitForeign == InitWith(0..MaxLines, 0, TextsIO, TRUE)

SpecForeign == InitForeign /\ [][Next]_vars

\* Construction alone, for every length from 0 to one past the limit.
InitNew == InitWith(0..(MaxBlockLines + 1), MaxFaults, TextsIO, FALSE)

NextNew ==
    \/ New
    \/ Drop

SpecNew == InitNew /\ [][NextNew]_vars

\* Blocks of the smallest sizes and of the largest, and the first size refused.
InitWide ==
    InitWith({1, 2, MaxBlockLines, MaxBlockLines + 1}, 0, TextsIO, FALSE)

SpecWide == InitWide /\ [][Next]_vars

(***************************************************************************)
(* The download example (src/examples/download_sync.rs).  try_main makes a *)
(* Block, hides the cursor, spawns one task per line and waits for them;   *)
(* then it clears the lines, shows the cursor and returns.  A task updates *)
(* its own line MaxUpdates times, sleeping after each update, and once     *)
(* more when it is complete; it takes the lock for each update alone.      *)
(*   sched.main     where try_main is                                      *)
(*   sched.locking  whether the tasks take the lock at all                 *)
(*   sched.lock     the task that holds the lock, or 0                     *)
(*   sched.pc[t]    where task t is: "lock", then the steps of its         *)
(*                  update_element ("read", "move", "commit", "write"),    *)
(*                  then "sleep" or "done"                                 *)
(*   sched.left[t]  the updates task t has still to make                   *)
(*   sched.seen[t]  the tracked row task t read for its move               *)
(*   sched.joined   the tasks try_main has awaited                         *)
(*   sched.overlap  whether a call ever began while another was under way  *)
(***************************************************************************)
Program(locking) ==
    [main |-> "new", locking |-> locking, lock |-> 0, pc |-> <<>>, left |-> <<>>,
     seen |-> <<>>, joined |-> 0, overlap |-> FALSE]

Tasks == 1..Len(sched.pc)

\* The steps of a call after its first.
MidCall == {"move", "commit", "write"}

\* A lock that is never free to take twice, as it would be if it were no lock.
MayLock_always(l) == TRUE

\* Mutex::lock returns once no one holds the lock.
MayLock(l) == l = 0

\* The guard as it would be if it were never dropped.
Unlock_forgotten(l, t) == l

\* The guard is dropped at the end of the statement that took the lock.
Unlock(l, t) == IF l = t THEN 0 ELSE l

\* The row is as it would be if the commit were left out.
commit_row_skipped(S, r) == S

\* cursor_position.row.set(..)
commit_row(S, r) == [S EXCEPT !.row = r]

\* The Line task t was given: a clone of the Block's line t - 1 as it was
\* when the task was spawned.
TaskElem(t) ==
    update_relative_row(InteractiveLine_new(generate_names(input_len)[t]), t - 1)

\* The content of the update task t is about to make: the line's name and
\* the progress.
TaskText(t) == TaskElem(t).content \o <<MaxUpdates + 1 - sched.left[t]>>

\* The update of task t, for the record of the last operation.
TaskOp(t) ==
    [Op("update_element", TaskElem(t).relative_row, TaskText(t), TRUE)
        EXCEPT !.from = IF sched.pc[t] = "read" THEN row ELSE sched.seen[t]]

MainNew ==
    /\ sched.main = "new"
    /\ NewCall
    /\ sched' = [sched EXCEPT !.main = IF phase' = "live" THEN "hide" ELSE "failed"]

MainHide ==
    /\ sched.main = "hide"
    /\ MayLock(sched.lock)
    /\ HideCursorCall
    /\ sched' = [sched EXCEPT !.main = "spawn"]

MainSpawn ==
    /\ sched.main = "spawn"
    /\ MayLock(sched.lock)
    /\ sched' = [sched EXCEPT !.main = "join",
                              !.pc = [t \in 1..Len(interactive_lines) |-> "lock"],
                              !.left = [t \in 1..Len(interactive_lines) |-> MaxUpdates + 1],
                              !.seen = [t \in 1..Len(interactive_lines) |-> 0]]
    /\ UNCHANGED block_vars

\* cur.lock().await
TaskLock(t) ==
    /\ t \in Tasks
    /\ sched.pc[t] = "lock"
    /\ sched.locking => MayLock(sched.lock)
    /\ sched' = [sched EXCEPT !.lock = IF sched.locking THEN t ELSE @,
                              !.pc[t] = "read"]
    /\ UNCHANGED block_vars

\* update_element stores the content; goto_element finds the line and go_to
\* reads the tracked row and computes the move.
TaskRead(t) ==
    /\ t \in Tasks
    /\ sched.pc[t] = "read"
    /\ LET relative_row == TaskElem(t).relative_row
           S == [Sure EXCEPT !.lines[Get(Sure.lines, relative_row)].content = TaskText(t)]
       IN  Commit(S, TaskOp(t), "live")
    /\ sched' = [sched EXCEPT !.seen[t] = row,
                              !.pc[t] = "move",
                              !.overlap = @ \/ \E u \in Tasks \ {t} : sched.pc[u] \in MidCall]

\* go_to emits the move it computed from the row it read.
TaskMove(t) ==
    /\ t \in Tasks
    /\ sched.pc[t] = "move"
    /\ LET own == interactive_lines[Get(interactive_lines, TaskElem(t).relative_row)]
           S == go_to([Sure EXCEPT !.row = sched.seen[t]], own)
       IN  Commit([S EXCEPT !.row = row], TaskOp(t), "live")
    /\ sched' = [sched EXCEPT !.pc[t] = "commit"]

\* goto_element commits the row and writes the carriage return.
TaskCommit(t) ==
    /\ t \in Tasks
    /\ sched.pc[t] = "commit"
    /\ Commit(write_inline(commit_row(Sure, TaskElem(t).relative_row), <<CR>>),
              TaskOp(t), "live")
    /\ sched' = [sched EXCEPT !.pc[t] = "write"]

\* update_element erases the line and writes the content; the statement
\* ends and the guard is dropped.
TaskWrite(t) ==
    /\ t \in Tasks
    /\ sched.pc[t] = "write"
    /\ LET T == clear_line(Sure)
           S == IF Ok(T) THEN write_inline(T, <<TXT(TaskText(t))>>) ELSE T
       IN  Commit(S, TaskOp(t), "live")
    /\ sched' = [sched EXCEPT !.lock = Unlock(@, t),
                              !.left[t] = @ - 1,
                              !.pc[t] = IF sched.left[t] = 1 THEN "done" ELSE "sleep"]

\* sleep(..).await, and the next turn of the loop
TaskSleep(t) ==
    /\ t \in Tasks
    /\ sched.pc[t] = "sleep"
    /\ sched' = [sched EXCEPT !.pc[t] = "lock"]
    /\ UNCHANGED block_vars

\* for thread in threads { thread.await??; }
MainJoin ==
    /\ sched.main = "join"
    /\ sched.joined < Len(sched.pc)
    /\ sched.pc[sched.joined + 1] = "done"
    /\ sched' = [sched EXCEPT !.joined = @ + 1,
                              !.main = IF sched.joined + 1 = Len(sched.pc)
                                       THEN "clear" ELSE "join"]
    /\ UNCHANGED block_vars

MainClearLines ==
    /\ sched.main = "clear"
    /\ MayLock(sched.lock)
    /\ ClearLinesCall
    /\ sched' = [sched EXCEPT !.main = "show"]

MainShow ==
    /\ sched.main = "show"
    /\ MayLock(sched.lock)
    /\ ShowCursorCall
    /\ sched' = [sched EXCEPT !.main = "return"]

\* try_main returns: the last Arc goes and the Block is dropped.
MainReturn ==
    /\ sched.main = "return"
    /\ DropCall
    /\ sched' = [sched EXCEPT !.main = "done"]

NextTasks ==
    \/ MainNew
    \/ MainHide
    \/ MainSpawn
    \/ \E t \in Tasks : TaskLock(t)
    \/ \E t \in Tasks : TaskRead(t)
    \/ \E t \in Tasks : TaskMove(t)
    \/ \E t \in Tasks : TaskCommit(t)
    \/ \E t \in Tasks : TaskWrite(t)
    \/ \E t \in Tasks : TaskSleep(t)
    \/ MainJoin
    \/ MainClearLines
    \/ MainShow
    \/ MainReturn

\* The example, with up to MaxTasks lines and so many tasks.
InitTasks ==
    /\ InitBlock(1..MaxTasks, 0, TextsIO, FALSE)
    /\ sched = Program(TRUE)

SpecTasks == InitTasks /\ [][NextTasks]_vars

\* The runtime goes on running try_main and every task that can take a
\* step.  A task that waits for the lock can take its step whenever the
\* lock is free; the others make finitely many updates, so it is enough
\* that a step which stays possible is taken.
MainStep == MainNew \/ MainHide \/ MainSpawn \/ MainJoin \/ MainClearLines
                \/ MainShow \/ MainReturn
TaskStep(t) == TaskLock(t) \/ TaskRead(t) \/ TaskMove(t) \/ TaskCommit(t)
                  \/ TaskWrite(t) \/ TaskSleep(t)
Fairness ==
    /\ WF_vars(MainStep)
    /\ \A t \in 1..MaxTasks : WF_vars(TaskStep(t))

SpecTasksFair == SpecTasks /\ Fairness

\* The same tasks on a Block they share with no lock.
InitRace ==
    /\ InitBlock(1..MaxTasks, 0, TextsIO, FALSE)
    /\ sched = Program(FALSE)

SpecRace == InitRace /\ [][NextTasks]_vars

(***************************************************************************)
(* What the claims speak of.                                               *)
(***************************************************************************)
N == Len(interactive_lines)

\* Some write has failed since the program started.
io_failed == first_failure # "none"

\* A write of str as the terminal receives it: between two carriage returns.
Framed(str) == <<CR>> \o str \o <<CR>>

\* The bytes of one relative move from row r to row t.
MoveBytes(r, t) ==
    IF r > t THEN Framed(<<CSI_F(r - t)>>)
    ELSE IF r < t THEN Framed(<<CSI_E(t - r)>>)
    ELSE <<>>

Did(name) == lastOp.name = name /\ lastOp.res = "ok"


(***************************************************************************)
(* C1: after any sequence of successful operations on a Block, the tracked *)
(* row equals the terminal's real cursor row.  The code breaks it:         *)
(* clear_lines moves the cursor up N-1 rows with move_up, which emits the  *)
(* bytes and commits nothing.                                              *)
(***************************************************************************)
C1_TrackedRowIsRealRow ==
    (phase = "live" /\ ~io_failed /\ lastOp.res = "ok") => row = term_row

(***************************************************************************)
(* C2: in every reachable state of a Block, a successful update_element    *)
(* puts the text on the terminal row of the slot and changes the display   *)
(* of no other row.  It fails once clear_lines has run (C1).               *)
(***************************************************************************)
C2_UpdateLandsOnSlotRow ==
    Did("update_element") =>
        /\ written = {<<lastOp.idx, lastOp.text>>}
        /\ erased \subseteq {lastOp.idx}

(***************************************************************************)
(* C3: after a successful clear_lines the tracked row is 0.  The code      *)
(* leaves it at N-1, where goto_idx committed it.                          *)
(***************************************************************************)
C3_ClearLinesTracksRowZero ==
    Did("clear_lines") => row = 0

(***************************************************************************)
(* C4: from every starting row, clear_lines erases exactly the terminal    *)
(* rows 1..N-1, never row 0, and leaves the real cursor on row 0.  It      *)
(* fails when clear_lines starts in the state an earlier clear_lines left  *)
(* (C1, C3).                                                               *)
(***************************************************************************)
C4_ClearLinesErasesAllButRowZero ==
    Did("clear_lines") =>
        /\ erased = 1..(N - 1)
        /\ 0 \notin erased
        /\ term_row = 0

(***************************************************************************)
(* C5: a successful update_element(slot, text, clear) from tracked row r   *)
(* to a slot of row t emits one relative move of |r - t| rows (up if       *)
(* r > t, down if r < t, none if r = t), then the erase if and only if     *)
(* clear, then the text between carriage returns; the tracked row is then  *)
(* t and the slot's stored content is text.  Between the move and the      *)
(* erase goto_element writes a carriage return, which moves to no row.     *)
(***************************************************************************)
C5_UpdateEmitsMoveEraseText ==
    Did("update_element") =>
        /\ lastOp.from \in 0..N
        /\ emitted = MoveBytes(lastOp.from, lastOp.idx)
                       \o Framed(<<CR>>)
                       \o (IF lastOp.clear THEN Framed(<<CSI_2K, CR>>) ELSE <<>>)
                       \o Framed(<<TXT(lastOp.text)>>)
        /\ row = lastOp.idx
        /\ interactive_lines[lastOp.idx + 1].content = lastOp.text

\* An update with the erase asked for, reached by a move up of 2 rows or more.
C5_Witness ==
    /\ Did("update_element")
    /\ lastOp.clear
    /\ lastOp.from >= lastOp.idx + 2
    /\ row = lastOp.idx

(***************************************************************************)
(* C6: after goto_idx(idx1), goto_idx(idx2) moves by |idx1 - idx2| rows,   *)
(* up when idx1 > idx2 and down when idx1 < idx2; with idx1 = idx2, and    *)
(* whenever the tracked row is already idx, it emits no byte at all, and   *)
(* the tracked row is idx afterwards.                                      *)
(***************************************************************************)
C6_GotoIdxMovesByDifference ==
    Did("goto_idx") =>
        /\ prev_goto >= 0 => emitted = MoveBytes(prev_goto, lastOp.idx)
        /\ lastOp.from = lastOp.idx => emitted = <<>>
        /\ row = lastOp.idx

\* A second goto_idx, two rows above the first.
C6_Witness ==
    /\ Did("goto_idx")
    /\ prev_goto = lastOp.idx + 2
    /\ emitted = Framed(<<CSI_F(2)>>)

(***************************************************************************)
(* C7: Block::new returns the failure value EmptyLineSet for 0 lines and   *)
(* TooManyLines for 256 lines, succeeds for 255 lines, and in both         *)
(* failure cases no Block exists and nothing is emitted.  As claimed, the  *)
(* two failures are values Block::new returns.                             *)
(***************************************************************************)
C7_NewReturnsFailureValues ==
    (lastOp.name = "new" /\ input_len \in {0, MaxBlockLines + 1}) =>
        /\ Returned(lastOp.res)
        /\ lastOp.res # "ok"

(***************************************************************************)
(* C7, amended: Block::new panics on its assertion (it returns nothing)    *)
(* for 0 lines and for 256 lines, and succeeds for 255 lines when its      *)
(* write succeeds; in both panics no Block exists and nothing is emitted.  *)
(***************************************************************************)
C7_NewPanicsOnBadLength ==
    lastOp.name = "new" =>
        /\ input_len = 0 => lastOp.res = "panic_empty"
        /\ input_len = MaxBlockLines + 1 => lastOp.res = "panic_too_many"
        /\ input_len = MaxBlockLines =>
              /\ lastOp.res \notin {"panic_empty", "panic_too_many"}
              /\ ~io_failed => (lastOp.res = "ok" /\ phase = "live" /\ N = MaxBlockLines)
        /\ lastOp.res \in {"panic_empty", "panic_too_many"} =>
              /\ phase = "dead"
              /\ interactive_lines = <<>>
              /\ emitted = <<>>
              /\ drop_shows = 0
              /\ term_row = 0

\* Block::new has been given 256 lines and has panicked.
C7_Witness ==
    /\ lastOp.name = "new"
    /\ input_len = MaxBlockLines + 1
    /\ lastOp.res = "panic_too_many"
    /\ phase = "dead"

(***************************************************************************)
(* C8: right after a successful Block::new with N lines (1..255) the       *)
(* tracked row is N, the only output is one write of exactly N newline     *)
(* bytes (between the carriage returns of every write), and the line given *)
(* at position i has row i and its initial content.                        *)
(***************************************************************************)
C8_NewReservesRowsAndTracksN ==
    Did("new") =>
        /\ input_len \in 1..MaxBlockLines
        /\ N = input_len
        /\ row = N
        /\ term_row = N
        /\ emitted = Framed(<<NL(N)>>)
        /\ \A i \in 1..N :
              /\ interactive_lines[i].relative_row = i - 1
              /\ interactive_lines[i].content = generate_names(input_len)[i]

\* A Block of 255 lines has just been constructed.
C8_Witness ==
    /\ Did("new")
    /\ input_len = MaxBlockLines
    /\ row = MaxBlockLines
    /\ phase = "live"

(***************************************************************************)
(* C9: teardown calls show_cursor exactly once on every path that ends the *)
(* Block's lifetime, also after an update_element that returned an I/O     *)
(* failure, so the last cursor-visibility sequence of the lifetime is      *)
(* show-cursor (the cursor is visible once the Block is gone).             *)
(***************************************************************************)
\* A Block was constructed and has been torn down.
TornDown ==
    /\ phase = "dead"
    /\ \/ lastOp.name = "drop"
       \/ lastOp.name = "new" /\ IoFailure(lastOp.res)

\* The write of teardown's show_cursor succeeded.
TeardownWriteOk ==
    \/ Did("drop")
    \/ lastOp.name = "new" /\ lastOp.res = "io_error"

C10_FailedTeardownDoesNotAbort ==
    (TornDown /\ ~TeardownWriteOk) => ~Panicked(lastOp.res)

(***************************************************************************)
(* The calls that take a line or an index, and what a refused call leaves. *)
(***************************************************************************)
ByLine == {"goto_element", "update_element"}
ByLineOrIndex == {"goto_idx"} \cup ByLine

\* The step changed neither the Block nor the terminal, and wrote nothing.
NothingDone ==
    /\ row' = row
    /\ term_row' = term_row
    /\ cursor_visible' = cursor_visible
    /\ interactive_lines' = interactive_lines
    /\ emitted' = <<>>
    /\ lastOp'.n = 0

(***************************************************************************)
(* C11: goto_element and update_element called with a Line that is not of  *)
(* this Block fail with SlotNotFound and do nothing, whatever row the Line *)
(* carries.  The code looks the Line up by its row alone, so a foreign     *)
(* Line whose row is below N is taken for the Block's own line of that row.*)
(***************************************************************************)
C11_ForeignLineRejected ==
    [][(lastOp'.name \in ByLine /\ lastOp'.foreign)
          => (lastOp'.res = "not_found" /\ NothingDone)]_vars

(***************************************************************************)
(* C12: goto_idx with an index >= N, and goto_element / update_element     *)
(* with a Line whose row is >= N, return an error and leave the tracked    *)
(* row, the real row, every line's content and the output as they were.    *)
(***************************************************************************)
C12_OutOfRangeFailsAndChangesNothing ==
    [][(lastOp'.name \in ByLineOrIndex /\ lastOp'.idx >= N)
          => (lastOp'.res = "not_found" /\ NothingDone)]_vars

\* An update with a Line of row N was refused after the cursor had moved
\* into the block and a line had got a text.
C12_Witness ==
    /\ lastOp.name = "update_element"
    /\ lastOp.idx = N
    /\ lastOp.res = "not_found"
    /\ row < N
    /\ \E i \in 1..N : interactive_lines[i].content \in texts

(***************************************************************************)
(* C13: when a write inside update_element fails (the move, the carriage   *)
(* return after it, the erase or the text), update_element returns the     *)
(* I/O failure at once, the line's stored content is already the new text  *)
(* and the other lines' contents are as they were.                         *)
(***************************************************************************)
C13_FailedUpdateKeepsNewContent ==
    [][(lastOp'.name = "update_element" /\ lastOp'.failed > 0)
          => /\ lastOp'.res = "io_error"
             /\ lastOp'.n = lastOp'.failed
             /\ interactive_lines' =
                   [interactive_lines EXCEPT ![lastOp'.idx + 1].content = lastOp'.text]]_vars

\* The text write failed after the move and the erase: the line stores the
\* new text and the terminal shows none.
C13_Witness ==
    /\ lastOp.name = "update_element"
    /\ lastOp.res = "io_error"
    /\ lastOp.failed = 4
    /\ erased = {lastOp.idx}
    /\ written = {}
    /\ interactive_lines[lastOp.idx + 1].content = lastOp.text

(***************************************************************************)
(* C14: when the movement write of goto_idx, goto_element or               *)
(* update_element fails, the tracked row is already the target row.  The   *)
(* code does the reverse: `self.go_to(el)?` returns before                 *)
(* `cursor_position.row.set(..)` is reached, so the tracked row keeps its  *)
(* value from before the move, whether or not the bytes reached the        *)
(* terminal.                                                               *)
(***************************************************************************)
\* The call had to move, and its first write, the move, failed.
MovementWriteFailed ==
    /\ lastOp.name \in ByLineOrIndex
    /\ lastOp.idx < N
    /\ lastOp.from # lastOp.idx
    /\ lastOp.failed = 1

C14_FailedMoveCommitsTarget ==
    MovementWriteFailed => row = lastOp.idx

C14_FailedMoveKeepsOldRow ==
    MovementWriteFailed => (lastOp.res = "io_error" /\ row = lastOp.from)

\* The movement bytes reached the terminal although the write failed: the
\* cursor is on the target row and the tracked row is the old one.
C14_Witness ==
    /\ MovementWriteFailed
    /\ lastOp.name = "goto_element"
    /\ emitted = MoveBytes(lastOp.from, lastOp.idx)
    /\ term_row = lastOp.idx
    /\ row = lastOp.from
    /\ row # term_row

(***************************************************************************)
(* C16: clear_line, hide_cursor and show_cursor, when their write          *)
(* succeeds, emit their own sequence and nothing else (as every write, it  *)
(* goes out between two carriage returns), and leave the tracked row, the  *)
(* real row and every line as they were.  A show_cursor that follows a     *)
(* show_cursor emits the same sequence again and returns no error.         *)
(***************************************************************************)
OwnSequence(name) ==
    CASE name = "clear_line"  -> <<CSI_2K, CR>>
      [] name = "hide_cursor" -> <<CSI_HIDE>>
      [] name = "show_cursor" -> <<CSI_SHOW>>

C16_SingleSequenceOpsChangeNothingElse ==
    [][(lastOp'.name \in {"clear_line", "hide_cursor", "show_cursor"}
            /\ lastOp'.failed = 0)
          => /\ lastOp'.res = "ok"
             /\ lastOp'.n = 1
             /\ emitted' = Framed(OwnSequence(lastOp'.name))
             /\ row' = row
             /\ term_row' = term_row
             /\ interactive_lines' = interactive_lines
             /\ (Did("show_cursor") /\ lastOp'.name = "show_cursor"
                    => emitted' = emitted)]_vars

\* show_cursor has run with the cursor inside the block, on a line that
\* was given a text; it can run again from here.
C16_Witness ==
    /\ Did("show_cursor")
    /\ emitted = Framed(<<CSI_SHOW>>)
    /\ row < N
    /\ row = term_row
    /\ interactive_lines[row + 1].content \in texts
    /\ cursor_visible

(***************************************************************************)
(* C20: in every reachable state of a Block the line at position i (from   *)
(* 0) has row i, and the Block has the lines it was made with: no          *)
(* operation changes a line's row or the number of lines.                  *)
(***************************************************************************)
C20_RowsArePositions ==
    phase = "live" =>
        /\ N = input_len
        /\ \A i \in 1..N : interactive_lines[i].relative_row = i - 1

\* A Block of the largest size after a clear_lines, with a line that an
\* update gave a text.
C20_Witness ==
    /\ phase = "live"
    /\ N = MaxLines
    /\ Did("clear_lines")
    /\ \E i \in 1..N : interactive_lines[i].content \in texts

(***************************************************************************)
(* C19: for every size N from 1 to 255 the tracked row is in 0..N in every *)
(* reachable state and every movement is by 0..255 rows: the row that      *)
(* Block::new stores is N itself and the move of a goto is by the exact    *)
(* difference of the rows, nothing wraps or is cut to 8 bits.              *)
(***************************************************************************)
Moves == {k \in 1..Len(emitted) : emitted[k].k \in {"CSI_F", "CSI_E"}}

C19_RowsAndMovesFitU8 ==
    phase = "live" =>
        /\ N \in 1..MaxBlockLines
        /\ N = input_len
        /\ row \in 0..N
        /\ Did("new") => row = N
        /\ \A k \in Moves : emitted[k].n \in 0..(U8 - 1)
        /\ (Did("goto_idx") /\ lastOp.from # lastOp.idx)
              => emitted = MoveBytes(lastOp.from, lastOp.idx)

\* The longest move: from below a Block of 255 lines to its first line.
C19_Witness ==
    /\ N = MaxBlockLines
    /\ Did("goto_idx")
    /\ lastOp.from = MaxBlockLines
    /\ lastOp.idx = 0
    /\ emitted = Framed(<<CSI_F(MaxBlockLines)>>)
    /\ row = 0

(***************************************************************************)
(* The tasks of the example: while try_main waits for them, and when none  *)
(* of them is inside a call.                                               *)
(***************************************************************************)
TasksRunning == sched.main = "join"
Quiet == \A t \in Tasks : sched.pc[t] \notin MidCall
AllTasksDone ==
    /\ Tasks # {}
    /\ \A t \in Tasks : sched.pc[t] = "done" /\ sched.left[t] = 0

(***************************************************************************)
(* C15: when the tasks share the Block behind one lock and hold it for one *)
(* update_element at a time, then in every interleaving no call begins     *)
(* while another is under way, the tracked row is the real row whenever no *)
(* call is under way, and the text of the last update is on the row of its *)
(* own line, which is the only row erased and written.                     *)
(***************************************************************************)
C15_LockedUpdatesStayInSync ==
    (TasksRunning /\ Quiet) =>
        /\ ~sched.overlap
        /\ row = term_row
        /\ lastOp.name = "update_element" =>
              /\ row = lastOp.idx
              /\ erased = {lastOp.idx}
              /\ written = {<<lastOp.idx, lastOp.text>>}
              /\ interactive_lines[lastOp.idx + 1].content = lastOp.text

\* The second task has just updated its line, coming from the row of the
\* first, which has updated too and has not finished.
C15_Witness ==
    /\ TasksRunning
    /\ Quiet
    /\ Len(sched.pc) >= 2
    /\ lastOp.name = "update_element"
    /\ lastOp.idx = 1
    /\ lastOp.from = 0
    /\ sched.left[1] <= MaxUpdates
    /\ sched.pc[1] # "done"
    /\ written = {<<1, lastOp.text>>}

(***************************************************************************)
(* C17: with the lock taken for one update_element at a time and given     *)
(* back before the sleep, under fair scheduling and with no failing write, *)
(* every task makes all its updates and finishes, and then try_main clears *)
(* the lines, shows the cursor and returns; try_main does not go on before *)
(* every task has finished.                                                *)
(***************************************************************************)
C17_EveryTaskFinishesThenTeardown ==
    /\ <>(AllTasksDone /\ sched.main = "done" /\ phase = "dead" /\ cursor_visible)
    /\ [](sched.main \in {"clear", "show", "return", "done"} => AllTasksDone)

\* The program has ended with the most tasks.
C17_Witness ==
    /\ sched.main = "done"
    /\ sched.locking
    /\ Len(sched.pc) = MaxTasks
    /\ AllTasksDone
    /\ Did("drop")

(***************************************************************************)
(* C18: without the lock, two contexts whose updates interleave step by    *)
(* step (read the tracked row, emit the move, commit the row) reach a      *)
(* state where the tracked row is not the real row and a text is written   *)
(* on the wrong row.  It takes such an interleaving: when no call is under *)
(* way and the rows differ, a call had begun while another was under way.  *)
(***************************************************************************)
C18_DesyncOnlyAfterOverlap ==
    (TasksRunning /\ Quiet /\ row # term_row) => sched.overlap

\* Both calls are over, the tracked row is not the real row and the text of
\* the last update is on a row that is not its line's.
C18_Witness ==
    /\ TasksRunning
    /\ Quiet
    /\ ~sched.locking
    /\ row # term_row
    /\ lastOp.name = "update_element"
    /\ row = lastOp.idx
    /\ \E r \in (ScreenTop..N) \ {lastOp.idx} : written = {<<r, lastOp.text>>}

(***************************************************************************)
(* C21: after any sequence of successful operations on a Block of N lines  *)
(* the real cursor row is within 0..N: no move takes the cursor above the  *)
(* block's first row or below the row under the block.  The code breaks    *)
(* it: after clear_lines the tracked row is N-1 while the cursor is on row *)
(* 0 (C1, C3), and the next goto to a row above N-1 moves up from there.   *)
(***************************************************************************)
C21_RealCursorStaysInBlock ==
    (phase = "live" /\ ~io_failed /\ lastOp.res = "ok") => term_row \in 0..N
====
